---- MODULE Spec2Model ----
(***************************************************************************)
(* Model of the bias-image dataset experiments of cockpit:                 *)
(*   cockpit/experiment/dsDataCollection.py  BiasImageDatasetExperiment    *)
(*   cockpit/experiment/dsDataHWAT.py        ATBiasImageDatasetExperiment  *)
(*                                                                         *)
(* Numbers.  Aberration amplitudes are rationals.  Every amplitude of one  *)
(* configuration is kept as an integer numerator over the configuration's  *)
(* common denominator Unit(c), so that np.linspace is exact: the real      *)
(* value 1.0 is the integer Unit(c).  abb_magnitude is <<num, den>>.       *)
(* Python sequences are TLA+ sequences (1-based); numpy vectors indexed by *)
(* a mode number are functions over 0..nk-1.                               *)
(***************************************************************************)
EXTENDS Integers, Sequences, FiniteSets, TLC

-----------------------------------------------------------------------------
(* Bounds of the explored configurations.                                  *)

MaxAreas == 2

MaxSteps == 2

BiasModeChoices == { <<1>>, <<0, 2>> }

AppliedModeChoices == { <<1>>, <<2, 0>> }

Magnitudes == { <<5, 1>>, <<1, 100>> }

Configs ==
    [ bias_modes    : BiasModeChoices,
      abb_magnitude : Magnitudes,
      applied_modes : AppliedModeChoices,
      applied_step  : 1..MaxSteps,
      numReps       : 1..MaxAreas ]

\* The sweep generators are also explored with one more step count.
MaxGenSteps == 3

GenConfigs ==
    [ bias_modes    : BiasModeChoices,
      abb_magnitude : Magnitudes,
      applied_modes : AppliedModeChoices,
      applied_step  : 1..MaxGenSteps,
      numReps       : 1..MaxAreas ]

\* Configurations with malformed parameters among them: an empty
\* bias_modes or applied_modes, an applied_step of 0.
AnyConfigs ==
    [ bias_modes    : { << >>, << 1 >> },
      abb_magnitude : { << 5, 1 >> },
      applied_modes : { << >>, << 1 >>, << 2, 0 >> },
      applied_step  : 0..1,
      numReps       : 1..MaxAreas ]

-----------------------------------------------------------------------------
(* Values of the Python run time.                                          *)

\* No exception has left executeRep.
NoError == [ type |-> "None", msg |-> "", args |-> << >> ]

\* len() of a numpy vector
VecLen(v) == Cardinality(DOMAIN v)

SeqMax(s) == CHOOSE m \in { s[k] : k \in 1..Len(s) } : \A k \in 1..Len(s) : s[k] <= m

\* The integer that stands for the real value 1.0 in configuration c.
Unit(c) ==
    c.abb_magnitude[2] * (IF c.applied_step <= 1 THEN 1 ELSE c.applied_step - 1)

\* linspace whose single sample is the stop point.
linspace_SingleIsStop(c) ==
    LET num == c.applied_step
        m   == c.abb_magnitude[1]
        div == IF num <= 1 THEN 1 ELSE num - 1
    IN  [ k \in 1..num |-> IF num = 1 THEN m ELSE (0 - m) * div + 2 * m * (k - 1) ]

\* np.linspace(-abb_magnitude, abb_magnitude, applied_step): num evenly
\* spaced samples, both end points included; one sample is the start
\* point alone, no sample is the empty sequence.
linspace(c) ==
    LET num == c.applied_step
        m   == c.abb_magnitude[1]
        div == IF num <= 1 THEN 1 ELSE num - 1
    IN  [ k \in 1..num |-> (0 - m) * div + 2 * m * (k - 1) ]

\* areas = numReps
areas(c) == c.numReps

\* format(step, ".1f"): the amplitude rounded to one decimal place (ties to
\* even), with the sign the text starts with ("-0.0" keeps its sign).
FormatStep(c, step) ==
    LET mag  == IF step < 0 THEN 0 - step ELSE step
        den  == Unit(c)
        q    == (10 * mag) \div den
        r    == (10 * mag) % den
        up   == (2 * r > den) \/ (2 * r = den /\ q % 2 = 1)
    IN  [ neg |-> step < 0, tenths |-> IF up THEN q + 1 ELSE q ]

-----------------------------------------------------------------------------
(* dsDataCollection.py: makeBiasPolytope                                   *)

PlusOffsets(beta, axis, steps) ==
    [ k \in 1..Len(steps) |-> [ beta EXCEPT ![axis] = @ + 1 * steps[k] ] ]

\* MinusOffsets with the "+=" of the plus loop copied into it.
MinusOffsets_Adds(beta, axis, steps) ==
    [ k \in 1..Len(steps) |-> [ beta EXCEPT ![axis] = @ + 1 * steps[k] ] ]

MinusOffsets(beta, axis, steps) ==
    [ k \in 1..Len(steps) |-> [ beta EXCEPT ![axis] = @ - 1 * steps[k] ] ]

\* AxisOffsets without the minus loop.
RECURSIVE AxisOffsets_PlusOnly(_, _, _)
AxisOffsets_PlusOnly(beta, offset_axes, steps) ==
    IF offset_axes = << >>
    THEN << >>
    ELSE PlusOffsets(beta, Head(offset_axes), steps)
            \o AxisOffsets_PlusOnly(beta, Tail(offset_axes), steps)

RECURSIVE AxisOffsets(_, _, _)
AxisOffsets(beta, offset_axes, steps) ==
    IF offset_axes = << >>
    THEN << >>
    ELSE PlusOffsets(beta, Head(offset_axes), steps)
            \o MinusOffsets(beta, Head(offset_axes), steps)
            \o AxisOffsets(beta, Tail(offset_axes), steps)

makeBiasPolytope(start_aberrations, offset_axes, nk, steps) ==
    LET beta == [ j \in 0..(nk - 1) |-> start_aberrations[j] ]
    IN  << beta >> \o AxisOffsets(beta, offset_axes, steps)

(* dsDataHWAT.py: makeBiasPolytope                                         *)

AT_PlusOffsets(beta, axis, steps) ==
    [ k \in 1..Len(steps) |-> [ beta EXCEPT ![axis] = @ + 1 * steps[k] ] ]

AT_MinusOffsets(beta, axis, steps) ==
    [ k \in 1..Len(steps) |-> [ beta EXCEPT ![axis] = @ - 1 * steps[k] ] ]

\* AT_AxisOffsets with the minus loop ahead of the plus loop.
RECURSIVE AT_AxisOffsets_MinusFirst(_, _, _)
AT_AxisOffsets_MinusFirst(beta, offset_axes, steps) ==
    IF offset_axes = << >>
    THEN << >>
    ELSE AT_MinusOffsets(beta, Head(offset_axes), steps)
            \o AT_PlusOffsets(beta, Head(offset_axes), steps)
            \o AT_AxisOffsets_MinusFirst(beta, Tail(offset_axes), steps)

RECURSIVE AT_AxisOffsets(_, _, _)
AT_AxisOffsets(beta, offset_axes, steps) ==
    IF offset_axes = << >>
    THEN << >>
    ELSE AT_PlusOffsets(beta, Head(offset_axes), steps)
            \o AT_MinusOffsets(beta, Head(offset_axes), steps)
            \o AT_AxisOffsets(beta, Tail(offset_axes), steps)

AT_makeBiasPolytope(start_aberrations, offset_axes, nk, steps) ==
    LET beta == [ j \in 0..(nk - 1) |-> start_aberrations[j] ]
    IN  << beta >> \o AT_AxisOffsets(beta, offset_axes, steps)

-----------------------------------------------------------------------------
(* The sweep generators.  A generator object is a record: pc is "start"    *)
(* before the first next(), "yield" while suspended at the yield statement *)
(* and "done" once the function body has returned; area, mi, si are the    *)
(* positions of the three for loops (area as in range(areas), mi and si    *)
(* the 1-based positions in applied_modes and applied_steps).              *)

NewGenerator ==
    [ pc |-> "start", area |-> 0, mi |-> 0, si |-> 0,
      start_aberrations |-> << >>, newarea |-> FALSE ]

\* np.zeros(np.max((np.max(bias_modes), np.max(applied_modes))) + 1)
ZeroAberrations(c) ==
    LET top == IF SeqMax(c.bias_modes) >= SeqMax(c.applied_modes)
               THEN SeqMax(c.bias_modes) ELSE SeqMax(c.applied_modes)
    IN  [ j \in 0..top |-> 0 ]

\* np.max of an empty tuple raises ValueError (the first statement of the
\* generator body, run by the first next()).
np_max_raises(c) == c.bias_modes = << >> \/ c.applied_modes = << >>

\* The generator whose body has just raised: it is finished.
GenRaised ==
    [ pc |-> "raised", area |-> 0, mi |-> 0, si |-> 0,
      start_aberrations |-> << >>, newarea |-> FALSE ]

GenDone(sa, na) ==
    [ pc |-> "done", area |-> 0, mi |-> 0, si |-> 0,
      start_aberrations |-> sa, newarea |-> na ]

\* GenYield on a start_aberrations vector that is zeroed for every item.
GenYield_Resets(c, area, mi, si, sa, na) ==
    [ pc |-> "yield", area |-> area, mi |-> mi, si |-> si,
      start_aberrations |->
          [ j \in DOMAIN sa |-> IF j = c.applied_modes[mi] THEN linspace(c)[si] ELSE 0 ],
      newarea |-> na ]

\* The loop body up to the yield: start_aberrations[applied_abb] = step
GenYield(c, area, mi, si, sa, na) ==
    [ pc |-> "yield", area |-> area, mi |-> mi, si |-> si,
      start_aberrations |-> [ sa EXCEPT ![c.applied_modes[mi]] = linspace(c)[si] ],
      newarea |-> na ]

(* generateAbb whose innermost loop stops one step early.                   *)
RECURSIVE generateAbb_StepsShort(_, _, _, _, _, _)
generateAbb_StepsShort(c, area, mi, si, sa, na) ==
    IF area >= areas(c)
    THEN GenDone(sa, na)
    ELSE IF mi > Len(c.applied_modes)
    THEN generateAbb_StepsShort(c, area + 1, 1, 1, sa, TRUE)
    ELSE IF si >= Len(linspace(c))
    THEN generateAbb_StepsShort(c, area, mi + 1, 1, sa, na)
    ELSE GenYield(c, area, mi, si, sa, na)

(* dsDataCollection.py: generateAbb.  Runs the three loops from the loop   *)
(* positions (area, mi, si) to the next yield or to the end of the body.   *)
RECURSIVE generateAbb(_, _, _, _, _, _)
generateAbb(c, area, mi, si, sa, na) ==
    IF area >= areas(c)
    THEN GenDone(sa, na)
    ELSE IF mi > Len(c.applied_modes)
    THEN generateAbb(c, area + 1, 1, 1, sa, TRUE)
    ELSE IF si > Len(linspace(c))
    THEN generateAbb(c, area, mi + 1, 1, sa, na)
    ELSE GenYield(c, area, mi, si, sa, na)

(* dsDataHWAT.py: generateAbb *)
RECURSIVE AT_generateAbb(_, _, _, _, _, _)
AT_generateAbb(c, area, mi, si, sa, na) ==
    IF area >= areas(c)
    THEN GenDone(sa, na)
    ELSE IF mi > Len(c.applied_modes)
    THEN IF area + 1 < areas(c)
         THEN AT_generateAbb(c, area + 1, 1, 1, sa, IF area + 1 # 0 THEN TRUE ELSE na)
         ELSE GenDone(sa, na)
    ELSE IF si > Len(linspace(c))
    THEN AT_generateAbb(c, area, mi + 1, 1, sa, na)
    ELSE GenYield(c, area, mi, si, sa, na)

\* next without the "newarea = False" that follows the yield.
next_KeepsNewarea(c, g) ==
    IF g.pc = "start"
    THEN IF np_max_raises(c)
         THEN GenRaised
         ELSE generateAbb(c, 0, 1, 1, ZeroAberrations(c), FALSE)
    ELSE IF g.pc = "yield"
    THEN generateAbb(c, g.area, g.mi, g.si + 1, g.start_aberrations, g.newarea)
    ELSE [ g EXCEPT !.pc = "done" ]

\* next of a generator that is made anew once it is exhausted.
next_Restarts(c, g) ==
    IF g.pc \in { "start", "done" }
    THEN IF np_max_raises(c)
         THEN GenRaised
         ELSE generateAbb(c, 0, 1, 1, ZeroAberrations(c), FALSE)
    ELSE IF g.pc = "yield"
    THEN generateAbb(c, g.area, g.mi, g.si + 1, g.start_aberrations, FALSE)
    ELSE [ g EXCEPT !.pc = "done" ]

\* generator.__next__() of dsDataCollection.generateAbb: the first call runs
\* the body from its top, a later one resumes after the yield (newarea =
\* False, then the next step of the innermost loop).
next(c, g) ==
    IF g.pc = "start"
    THEN IF np_max_raises(c)
         THEN GenRaised
         ELSE generateAbb(c, 0, 1, 1, ZeroAberrations(c), FALSE)
    ELSE IF g.pc = "yield"
    THEN generateAbb(c, g.area, g.mi, g.si + 1, g.start_aberrations, FALSE)
    ELSE [ g EXCEPT !.pc = "done" ]

\* AT_next without the "newarea = False" that follows the yield.
AT_next_KeepsNewarea(c, g) ==
    IF g.pc = "start"
    THEN IF np_max_raises(c)
         THEN GenRaised
         ELSE AT_generateAbb(c, 0, 1, 1, ZeroAberrations(c), FALSE)
    ELSE IF g.pc = "yield"
    THEN AT_generateAbb(c, g.area, g.mi, g.si + 1, g.start_aberrations, g.newarea)
    ELSE [ g EXCEPT !.pc = "done" ]

\* generator.__next__() of dsDataHWAT.generateAbb
AT_next(c, g) ==
    IF g.pc = "start"
    THEN IF np_max_raises(c)
         THEN GenRaised
         ELSE AT_generateAbb(c, 0, 1, 1, ZeroAberrations(c), FALSE)
    ELSE IF g.pc = "yield"
    THEN AT_generateAbb(c, g.area, g.mi, g.si + 1, g.start_aberrations, FALSE)
    ELSE [ g EXCEPT !.pc = "done" ]

\* fprefix = f"A{area}A{applied_abb}S{step:.1f}_"
fprefix_of(c, g) ==
    << "A", g.area, "A", c.applied_modes[g.mi],
       "S", FormatStep(c, linspace(c)[g.si]), "_" >>

\* fprefix = f"R{areas}A{area}A{applied_abb}S{step:.1f}_"
AT_fprefix_of(c, g) ==
    << "R", areas(c), "A", g.area, "A", c.applied_modes[g.mi],
       "S", FormatStep(c, linspace(c)[g.si]), "_" >>

\* The triple a generator suspended at its yield hands to the caller, with
\* the loop variables it was built from.
Item(c, g) ==
    [ biaslist |-> makeBiasPolytope(g.start_aberrations, c.bias_modes,
                                    VecLen(g.start_aberrations), << Unit(c) >>),
      fprefix  |-> fprefix_of(c, g),
      newarea  |-> g.newarea,
      area     |-> g.area,
      applied_abb |-> c.applied_modes[g.mi],
      step     |-> linspace(c)[g.si] ]

AT_Item(c, g) ==
    [ biaslist |-> AT_makeBiasPolytope(g.start_aberrations, c.bias_modes,
                                       VecLen(g.start_aberrations), << Unit(c) >>),
      fprefix  |-> AT_fprefix_of(c, g),
      newarea  |-> g.newarea,
      area     |-> g.area,
      applied_abb |-> c.applied_modes[g.mi],
      step     |-> linspace(c)[g.si] ]

\* What "for item in generator" takes from generator g.
RECURSIVE Drain(_, _)
Drain(c, g) ==
    LET h == next(c, g)
    IN  IF h.pc = "yield" THEN << Item(c, h) >> \o Drain(c, h) ELSE << >>

RECURSIVE AT_Drain(_, _)
AT_Drain(c, g) ==
    LET h == AT_next(c, g)
    IN  IF h.pc = "yield" THEN << AT_Item(c, h) >> \o AT_Drain(c, h) ELSE << >>

\* The generator after "for item in generator" has ended.
RECURSIVE AT_Drained(_, _)
AT_Drained(c, g) ==
    LET h == AT_next(c, g)
    IN  IF h.pc = "yield" THEN AT_Drained(c, h) ELSE h

\* acc_patterns with "acc_patterns = biaslist" in place of the extend.
acc_patterns_LastOnly(items) ==
    IF items = << >> THEN << >> ELSE items[Len(items)].biaslist

\* acc_patterns.extend(biaslist) for every item pulled
RECURSIVE acc_patterns(_)
acc_patterns(items) ==
    IF items = << >> THEN << >>
    ELSE items[1].biaslist \o acc_patterns(Tail(items))

-----------------------------------------------------------------------------
(* State.                                                                  *)

VARIABLES
    cfg,                \* the keyword arguments both experiments are built from
    numReps,            \* BiasImageDatasetExperiment.numReps
    abb_generator,      \* BiasImageDatasetExperiment.abb_generator
    yielded,            \* the items abb_generator has yielded so far
    AT_numReps,         \* ATBiasImageDatasetExperiment.numReps
    AT_abb_generator,   \* ATBiasImageDatasetExperiment.abb_generator
    AT_yielded,         \* the items AT_abb_generator has yielded so far
    pc,                 \* where the immediate-mode run is
    repNum,             \* the repNum of the current (or next) executeRep
    biaslist,           \* executeRep locals
    fprefix,
    newarea,
    imlist,
    dm_set_failure,
    abbIdx,             \* position of "for abb in biaslist" (1-based)
    pushLog,            \* set_phase calls of the current repetition
    reqLog,             \* takeImage requests of the current repetition
    waiting,            \* executeAndWaitForOrTimeout calls in progress
    written,            \* imageio.mimwrite calls: <<repNum, filename, frames>>
    stagePos,           \* stageMover position (x, y)
    stageTarget,        \* target of the goToXY in progress
    moveLog,            \* repNum of every goToXY call
    printed,            \* repNum of every "Didn't set the aberration" print
    error,              \* the exception that left executeRep, or NoError
    poly_in,            \* arguments of a makeBiasPolytope call
    poly_out,           \* what dsDataCollection.makeBiasPolytope returned
    AT_poly_out,        \* what dsDataHWAT.makeBiasPolytope returned
    AT_table,           \* the toggles of the table generateActions built last
    AT_queued,          \* the pattern lists handed to aodev.proxy.queue_patterns
    post_processors,    \* MicroscopeCamera._post_processors
    cam_adds,           \* the number of addPostProcessor calls made
    cam_call,           \* the last camera call: arguments, chain before, error
    cam_result,         \* what the last getImageSize returned, receiveData published
    filter_cubes,       \* Clarity._filter_cubes
    processors,         \* Clarity._processors: 0 is None, k the k-th Processor made
    filter_position,    \* what proxy.get_filter_position() returns (NoPosition: None)
    filter_target,      \* where the filter cube turret is going
    button_section,     \* value of the "Toggle sectioning mode" button
    section_enabled,    \* whether that button is enabled
    cbox_calib,         \* the "Channel calibrated" check box
    pending,            \* events queued with QueueEvent and not yet handled
    status,             \* the last DEVICE_STATUS published for the Clarity
    gui_pc,             \* where the GUI thread is
    upd,                \* what the last _update_UI saw
    calib,              \* the last _on_calib call
    rx,                 \* the camera listener thread in receiveData
    rx_last,            \* how the last _section_data call that used a processor ended
    export,             \* the last _on_deforms call
    moves,              \* turret moves started
    calibs,             \* Processor objects made
    cam_enabled,        \* MicroscopeCamera.enabled
    listener_connected, \* whether the camera's data listener is connected
    proxy_enabled,      \* what the camera proxy's get_is_enabled() returns
    enable_requests,    \* asproxy.enable() calls made
    disable_requests,   \* _proxy.disable() calls made
    enable_call,        \* the last enableCamera call
    gate                \* a caller of executeAndWaitForOrTimeout on NEW_IMAGE

genVars == << abb_generator, yielded, AT_abb_generator, AT_yielded >>

repVars == << biaslist, fprefix, newarea, imlist, dm_set_failure, abbIdx,
              pushLog, reqLog, waiting >>

outVars == << written, stagePos, stageTarget, moveLog, printed, error >>

polyVars == << poly_in, poly_out, AT_poly_out >>

atVars == << AT_table, AT_queued >>

\* The variables outside the two experiments' runs.
camVars == << post_processors, cam_adds, cam_call, cam_result >>

\* The variables outside the two experiments' runs.
clarityVars == << filter_cubes, processors, filter_position, filter_target,
                 button_section, section_enabled, cbox_calib, pending, status,
                 gui_pc, upd, calib, rx, rx_last, export, moves, calibs >>

\* The camera's enabled state and its listener.
enableVars == << cam_enabled, listener_connected, proxy_enabled, enable_requests,
                disable_requests, enable_call >>

devVars == << polyVars, atVars, camVars, clarityVars, enableVars, gate >>

vars == << cfg, numReps, AT_numReps, pc, repNum, genVars, repVars, outVars,
           devVars >>

-----------------------------------------------------------------------------
(* Construction.                                                           *)

\* dsDataCollection.py: self.numReps = len(applied_steps) * areas
init_numReps(c) == Len(linspace(c)) * areas(c)

\* dsDataHWAT.py: self.numReps = len(applied_steps) * len(applied_modes) * areas
AT_init_numReps(c) == Len(linspace(c)) * Len(c.applied_modes) * areas(c)

\* Both experiment objects right after __init__(**c), before the run.
\* No addPostProcessor or removePostProcessor call has been made.
NoCall ==
    [ op |-> "none", priority |-> 0, f_data |-> "None", f_shape |-> "None",
      before |-> << >>, error |-> "None", readd |-> FALSE, restores |-> << >> ]

\* No enableCamera call has been made.
NoEnableCall ==
    [ called |-> FALSE, shouldEnable |-> FALSE, was_enabled |-> FALSE,
      requested |-> FALSE, result |-> "None" ]

\* No size has been returned and no image published.
NoResult ==
    [ kind |-> "none", base |-> << 0, 0 >>, size |-> << 0, 0 >>, image |-> << >>,
      published |-> 0 ]

\* Nobody waits for a NEW_IMAGE event.
NoWait == [ pc |-> "idle", payload |-> "none" ]

Constructed(c) ==
    /\ cfg = c
    /\ numReps = init_numReps(cfg)
    /\ abb_generator = NewGenerator
    /\ yielded = << >>
    /\ AT_numReps = AT_init_numReps(cfg)
    /\ AT_abb_generator = NewGenerator
    /\ AT_yielded = << >>
    /\ pc = "idle"
    /\ repNum = 0
    /\ biaslist = << >>
    /\ fprefix = << >>
    /\ newarea = FALSE
    /\ imlist = << >>
    /\ dm_set_failure = FALSE
    /\ abbIdx = 0
    /\ pushLog = << >>
    /\ reqLog = << >>
    /\ waiting = 0
    /\ written = << >>
    /\ stagePos = << 0, 0 >>
    /\ stageTarget = << 0, 0 >>
    /\ moveLog = << >>
    /\ printed = { }
    /\ error = NoError
    /\ AT_table = << >>
    /\ AT_queued = << >>
    /\ post_processors = << >>
    /\ cam_adds = 0
    /\ cam_call = NoCall
    /\ cam_result = NoResult
    /\ cam_enabled = FALSE
    /\ listener_connected = FALSE
    /\ proxy_enabled = FALSE
    /\ enable_requests = 0
    /\ disable_requests = 0
    /\ enable_call = NoEnableCall
    /\ gate = NoWait

\* No makeBiasPolytope call has been made on its own.
PolyIdle ==
    /\ poly_in = [ start_aberrations |-> << >>, offset_axes |-> << >>,
                   steps |-> << >> ]
    /\ poly_out = << >>
    /\ AT_poly_out = << >>

\* The value of get_filter_position() while the turret moves: None.
NoPosition == 0 - 1

Channels == 0..3

\* The "filter cubes" key of the device configuration, line by line.
ClarityConfigs ==
    { << "DAPI", "GFP", "dsRed", "Cy5" >>,
      << "DAPI", "", "GFP", "dsRed", "", "Cy5" >>,
      << "DAPI", "Empty", "Empty", "Cy5" >>,
      << "DAPI", "GFP", "Cy5" >> }

DefaultClarityConfig == << "DAPI", "GFP", "dsRed", "Cy5" >>

\* [label for label in config.split("\n") if label]
parse_filter_cubes(lines) ==
    LET NotEmpty(label) == label # ""
    IN  SelectSeq(lines, NotEmpty)

NoUpdate ==
    [ seen |-> FALSE, calibrated |-> FALSE, was_on |-> FALSE, handled |-> FALSE ]

NoCalib ==
    [ called |-> FALSE, error |-> "None", polled |-> FALSE, done |-> FALSE,
      fpos |-> NoPosition, before |-> [ i \in Channels |-> 0 ],
      sectioning |-> FALSE ]

NoSection == [ error |-> "None" ]

NoExport ==
    [ called |-> FALSE, calibrated |-> { }, labels |-> { }, error |-> "None",
      dialog |-> FALSE, saved |-> FALSE ]

\* Clarity.__init__ on a configuration that has both keys; it raises unless
\* four labels are left.  The turret stands at the first position.
Clarity_init(lines) ==
    /\ Len(parse_filter_cubes(lines)) = 4
    /\ filter_cubes = parse_filter_cubes(lines)
    /\ processors = [ i \in Channels |-> 0 ]
    /\ filter_position = 0
    /\ filter_target = 0
    /\ button_section = FALSE
    /\ section_enabled = FALSE
    /\ cbox_calib = FALSE
    /\ pending = << >>
    /\ status = "disabled"
    /\ gui_pc = "idle"
    /\ upd = NoUpdate
    /\ calib = NoCalib
    /\ rx = [ pc |-> "idle", todo |-> 0, fpos |-> NoPosition ]
    /\ rx_last = NoSection
    /\ export = NoExport
    /\ moves = 0
    /\ calibs = 0

\* A Clarity device nothing has been done with.
ClarityIdle == Clarity_init(DefaultClarityConfig)

Init ==
    /\ \E c \in Configs : Constructed(c)
    /\ PolyIdle
    /\ ClarityIdle

-----------------------------------------------------------------------------
(* The sweep generators on their own: one next() per step.                 *)

PullIM ==
    /\ abb_generator.pc \notin { "done", "raised" }
    /\ abb_generator' = next(cfg, abb_generator)
    /\ yielded' = IF abb_generator'.pc = "yield"
                  THEN Append(yielded, Item(cfg, abb_generator'))
                  ELSE yielded
    /\ UNCHANGED << devVars, cfg, numReps, AT_numReps, pc, repNum, AT_abb_generator,
                    AT_yielded, repVars, outVars >>

PullAT ==
    /\ AT_abb_generator.pc \notin { "done", "raised" }
    /\ AT_abb_generator' = AT_next(cfg, AT_abb_generator)
    /\ AT_yielded' = IF AT_abb_generator'.pc = "yield"
                     THEN Append(AT_yielded, AT_Item(cfg, AT_abb_generator'))
                     ELSE AT_yielded
    /\ UNCHANGED << devVars, cfg, numReps, AT_numReps, pc, repNum, abb_generator,
                    yielded, repVars, outVars >>

NextGen == PullIM \/ PullAT

\* bias_modes=(4,5), applied_modes=(4,), applied_step=3, abb_magnitude=5,
\* areas=1: an applied mode that is a bias mode too.
ExampleConfig ==
    [ bias_modes |-> << 4, 5 >>, abb_magnitude |-> << 5, 1 >>,
      applied_modes |-> << 4 >>, applied_step |-> 3, numReps |-> 1 ]

InitGen ==
    /\ \E c \in GenConfigs \cup { ExampleConfig } : Constructed(c)
    /\ PolyIdle
    /\ ClarityIdle

SpecGen == InitGen /\ [][NextGen]_vars

-----------------------------------------------------------------------------
(* dsDataCollection.py: executeRep, driven by the immediate-mode run loop. *)

\* ImmediateModeExperiment.run: executeRep(repNum) for repNum in
\* range(numReps), one after the other.
RunContinues == pc = "idle" /\ repNum < numReps

\* A frame delivered by the camera, with what held when it was exposed.
Frame ==
    [ rep    |-> repNum,
      idx    |-> abbIdx,
      pushed |-> Len(pushLog),
      pos    |-> stagePos,
      area   |-> abb_generator.area ]

\* filename = f"{self.saveBasePath}{fprefix}.tif"
filename(prefix) == << "saveBasePath", prefix, ".tif" >>

\* raise TimeoutError("Image capture returned None"): the message, and the
\* values formatted into it.
TimeoutError ==
    [ type |-> "TimeoutError", msg |-> "Image capture returned None", args |-> << >> ]

StopIteration ==
    [ type |-> "StopIteration", msg |-> "", args |-> << >> ]

\* The ValueError np.max raises inside the generator body.
ValueError ==
    [ type |-> "ValueError", msg |-> "zero-size array to reduction operation",
      args |-> << >> ]

\* biaslist, fprefix, newarea = self.abb_generator.__next__();
\* imlist = []; dm_set_failure = False
executeRep_begin ==
    /\ abb_generator' = next(cfg, abb_generator)
    /\ IF abb_generator'.pc = "yield"
       THEN LET item == Item(cfg, abb_generator')
            IN  /\ yielded' = Append(yielded, item)
                /\ biaslist' = item.biaslist
                /\ fprefix' = item.fprefix
                /\ newarea' = item.newarea
                /\ imlist' = << >>
                /\ dm_set_failure' = FALSE
                /\ abbIdx' = 1
                /\ pushLog' = << >>
                /\ reqLog' = << >>
                /\ pc' = "set_phase"
                /\ UNCHANGED error
       ELSE /\ pc' = "failed"
            /\ error' = IF abb_generator'.pc = "raised" THEN ValueError
                         ELSE StopIteration
            /\ UNCHANGED << yielded, biaslist, fprefix, newarea, imlist,
                            dm_set_failure, abbIdx, pushLog, reqLog >>
    /\ UNCHANGED << devVars, cfg, numReps, AT_numReps, repNum, AT_abb_generator,
                    AT_yielded, waiting, written, stagePos, stageTarget,
                    moveLog, printed >>

\* executeRep(repNum), called by the run loop.
StartRep ==
    /\ RunContinues
    /\ executeRep_begin

\* aodev.proxy.set_phase(abb) returned.
SetPhaseReturned ==
    /\ pc' = "takeimage"
    /\ UNCHANGED << dm_set_failure, error >>

\* SetPhaseRaised without the except clause: the exception leaves executeRep.
SetPhaseRaised_Propagates ==
    /\ pc' = "failed"
    /\ error' = [ type |-> "Exception", msg |-> "set_phase", args |-> << >> ]
    /\ UNCHANGED dm_set_failure

\* aodev.proxy.set_phase(abb) raised: except: dm_set_failure = True
SetPhaseRaised ==
    /\ dm_set_failure' = TRUE
    /\ pc' = "takeimage"
    /\ UNCHANGED error

\* try: aodev.proxy.set_phase(abb)  except: ...
SetPhase ==
    /\ pc = "set_phase"
    /\ \E ok \in BOOLEAN :
          /\ pushLog' = Append(pushLog, [ idx |-> abbIdx, ok |-> ok ])
          /\ IF ok THEN SetPhaseReturned ELSE SetPhaseRaised
    /\ UNCHANGED << devVars, cfg, numReps, AT_numReps, repNum, genVars, biaslist,
                    fprefix, newarea, imlist, abbIdx, reqLog, waiting,
                    written, stagePos, stageTarget, moveLog, printed >>

\* events.executeAndWaitForOrTimeout(NEW_IMAGE, takeimage, timeout): the
\* capture request goes out and the caller blocks.
TakeImage ==
    /\ pc = "takeimage"
    /\ reqLog' = Append(reqLog, abbIdx)
    /\ waiting' = waiting + 1
    /\ pc' = "wait"
    /\ UNCHANGED << devVars, cfg, numReps, AT_numReps, repNum, genVars, biaslist,
                    fprefix, newarea, imlist, dm_set_failure, abbIdx,
                    pushLog, outVars >>

\* if self.numReps == repNum + 1: print("-----Experiment Complete-----")
EndRep ==
    /\ repNum' = repNum + 1
    /\ pc' = IF numReps = repNum + 1 THEN "complete" ELSE "idle"

\* if dm_set_failure: print("Didn't set the aberration on the DM")
PrintDmFailure(flag) == IF flag THEN printed \cup { repNum } ELSE printed

\* if newarea: goToXY((curX + 50, curY - 50), shouldBlock=True)
ShouldMove(flag) == flag

\* The statements of executeRep after the for loop, with frames the
\* complete imlist.
AfterLoop(frames) ==
    /\ printed' = PrintDmFailure(dm_set_failure)
    /\ written' = Append(written, [ rep |-> repNum, name |-> filename(fprefix),
                                    frames |-> frames ])
    /\ IF ShouldMove(newarea)
       THEN /\ stageTarget' = << stagePos[1] + 50, stagePos[2] - 50 >>
            /\ moveLog' = Append(moveLog, repNum)
            /\ pc' = "moving"
            /\ UNCHANGED repNum
       ELSE /\ EndRep
            /\ UNCHANGED << stageTarget, moveLog >>
    /\ UNCHANGED << abbIdx, stagePos, error >>

\* OnImage with imlist.insert(0, result[0]) in place of imlist.append.
OnImage_Prepends(result) ==
    /\ imlist' = << result[1] >> \o imlist
    /\ IF abbIdx < Len(biaslist)
       THEN /\ abbIdx' = abbIdx + 1
            /\ pc' = "set_phase"
            /\ UNCHANGED << repNum, outVars >>
       ELSE AfterLoop(imlist')

\* result is not None: imlist.append(result[0]), then the next abb or the
\* end of the loop.
OnImage(result) ==
    /\ imlist' = Append(imlist, result[1])
    /\ IF abbIdx < Len(biaslist)
       THEN /\ abbIdx' = abbIdx + 1
            /\ pc' = "set_phase"
            /\ UNCHANGED << repNum, outVars >>
       ELSE AfterLoop(imlist')

\* OnTimeout that saves the frames captured so far before it raises.
OnTimeout_PersistsPartial ==
    /\ pc' = "failed"
    /\ error' = TimeoutError
    /\ written' = Append(written, [ rep |-> repNum, name |-> filename(fprefix),
                                    frames |-> imlist ])
    /\ UNCHANGED << imlist, abbIdx, repNum, stagePos, stageTarget,
                    moveLog, printed >>

\* result is None: raise TimeoutError("Image capture returned None")
OnTimeout ==
    /\ pc' = "failed"
    /\ error' = TimeoutError
    /\ UNCHANGED << imlist, abbIdx, repNum, written, stagePos, stageTarget,
                    moveLog, printed >>

\* executeAndWaitForOrTimeout returns: the arguments of the NEW_IMAGE event
\* (the frame first), or None once the timeout has passed.
WaitReturn ==
    /\ pc = "wait"
    /\ waiting' = waiting - 1
    /\ \E result_is_not_None \in BOOLEAN :
          IF result_is_not_None THEN OnImage(<< Frame >>) ELSE OnTimeout
    /\ UNCHANGED << devVars, cfg, numReps, AT_numReps, genVars, biaslist, fprefix,
                    newarea, dm_set_failure, pushLog, reqLog >>

\* goToXY(..., shouldBlock=True) returns when the stage has arrived.
StageMoveCompletes ==
    /\ pc = "moving"
    /\ stagePos' = stageTarget
    /\ EndRep
    /\ UNCHANGED << devVars, cfg, numReps, AT_numReps, genVars, repVars, written,
                    stageTarget, moveLog, printed, error >>

Next ==
    \/ StartRep
    \/ SetPhase
    \/ TakeImage
    \/ WaitReturn
    \/ StageMoveCompletes

Spec == Init /\ [][Next]_vars

-----------------------------------------------------------------------------
(* Properties of the construction and of executeRep (checked under Spec).  *)

\* The repetition that has ended most recently, when one has.
RepHasFailedPush == \E k \in 1..Len(pushLog) : ~ pushLog[k].ok

TimedOut == pc = "failed" /\ error.type = "TimeoutError"

\* C1: in both experiment variants the constructed numReps equals
\* len(applied_steps) * len(applied_modes) * areas, the number of items the
\* sweep generator yields.
C1_NumRepsIsProduct ==
    /\ numReps = Len(linspace(cfg)) * Len(cfg.applied_modes) * areas(cfg)
    /\ AT_numReps = Len(linspace(cfg)) * Len(cfg.applied_modes) * areas(cfg)

\* C2: when the capture wait for a bias vector times out the repetition
\* fails at once with a timeout error: no bias vector after the failing one
\* has been pushed or requested, no frame list of the repetition has been
\* written and the repetition has not moved the stage.
C2_TimeoutAbortsRep ==
    TimedOut =>
        /\ Len(pushLog) = abbIdx
        /\ Len(reqLog) = abbIdx
        /\ Len(imlist) = abbIdx - 1
        /\ \A k \in 1..Len(written) : written[k].rep # repNum
        /\ \A k \in 1..Len(moveLog) : moveLog[k] # repNum
        /\ stagePos = stageTarget

C2_Witness ==
    /\ TimedOut
    /\ newarea
    /\ abbIdx >= 2
    /\ abbIdx < Len(biaslist)
    /\ Len(written) >= 1

\* C3: a set_phase call that raises is not fatal: the capture for the same
\* bias vector is still requested, the remaining bias vectors are still
\* processed (a repetition that ends normally has pushed and captured every
\* vector of its bias list) and the exception does not leave executeRep.
C3_PushFailureNonFatal ==
    /\ error.type \in { "None", "TimeoutError" }
    /\ \A k \in 1..Len(pushLog) :
          ~ pushLog[k].ok =>
              \/ k <= Len(reqLog) /\ reqLog[k] = pushLog[k].idx
              \/ k = Len(pushLog) /\ pc = "takeimage" /\ abbIdx = pushLog[k].idx
    /\ (RepHasFailedPush /\ pc \in { "idle", "moving", "complete" }) =>
          /\ dm_set_failure
          /\ Len(pushLog) = Len(biaslist)
          /\ Len(imlist) = Len(biaslist)
          /\ written[Len(written)].frames = imlist

C3_Witness ==
    /\ pc = "idle"
    /\ repNum >= 1
    /\ Len(biaslist) >= 3
    /\ ~ pushLog[1].ok
    /\ pushLog[2].ok
    /\ Len(imlist) = Len(biaslist)

\* C4: whenever a device write failed for a bias vector of a repetition, the
\* failure has been printed for that repetition once the repetition has
\* ended, whichever way it ended (also by a later capture timeout).
C4_FailureAlwaysDiagnosed ==
    /\ (RepHasFailedPush /\ pc \in { "idle", "complete" }) => (repNum - 1) \in printed
    /\ (RepHasFailedPush /\ pc = "moving") => repNum \in printed
    /\ (RepHasFailedPush /\ TimedOut) => repNum \in printed

\* C5: the error of a capture timeout names the repetition and the bias
\* index that failed.
C5_TimeoutNamesRepAndBias ==
    TimedOut =>
        /\ \E k \in 1..Len(error.args) : error.args[k] \in { repNum, repNum + 1 }
        /\ \E k \in 1..Len(error.args) : error.args[k] \in { abbIdx - 1, abbIdx }

\* The frames captured so far: those of the repetition in progress and
\* those already written.
CapturedFrames ==
    { imlist[k] : k \in 1..Len(imlist) }
        \cup UNION { { written[j].frames[k] : k \in 1..Len(written[j].frames) } :
                     j \in 1..Len(written) }

\* C6: the stage move for a new area completes before any frame of the first
\* item of that area is captured: every frame of area a is captured after
\* exactly a stage moves (each move is +50 in x, -50 in y).
C6_FramesOfAreaAfterMoves ==
    \A f \in CapturedFrames : f.pos = << 50 * f.area, 0 - 50 * f.area >>

\* C7: within a repetition at most one capture wait is in progress, the
\* request for vector i+1 goes out only after the wait for vector i has
\* returned, the i-th frame is the one captured after the i-th push, and a
\* written list has one frame per bias vector, in bias-list order, under the
\* name derived from the repetition's file_prefix.
C7_FramesInBiasOrder ==
    /\ waiting \in { 0, 1 }
    /\ waiting = 1 <=> pc = "wait"
    /\ Len(reqLog) <= Len(imlist) + 1
    /\ \A k \in 1..Len(reqLog) : reqLog[k] = k
    /\ \A k \in 1..Len(imlist) :
          imlist[k].idx = k /\ imlist[k].pushed = k /\ imlist[k].rep \in { repNum - 1, repNum }
    /\ \A j \in 1..Len(written) :
          LET w    == written[j]
              item == yielded[w.rep + 1]
          IN  /\ w.rep = j - 1
              /\ w.name = filename(item.fprefix)
              /\ Len(w.frames) = Len(item.biaslist)
              /\ \A k \in 1..Len(w.frames) :
                    /\ w.frames[k].idx = k
                    /\ w.frames[k].pushed = k
                    /\ w.frames[k].rep = w.rep

C7_Witness ==
    /\ pc = "complete"
    /\ Len(written) >= 2
    /\ Len(written[2].frames) = 5

-----------------------------------------------------------------------------
(* Properties of the sweep generators (checked under SpecGen).             *)

\* The number of items of a whole sweep.
SweepLen(c) == areas(c) * Len(c.applied_modes) * Len(linspace(c))

\* The k-th item of a sweep that runs over the areas, then over
\* applied_modes, then over applied_steps.
ExpectedArea(c, k) == (k - 1) \div (Len(c.applied_modes) * Len(linspace(c)))

ExpectedMode(c, k) ==
    c.applied_modes[(((k - 1) \div Len(linspace(c))) % Len(c.applied_modes)) + 1]

ExpectedStep(c, k) == linspace(c)[((k - 1) % Len(linspace(c))) + 1]

InSweepOrder(c, g, items) ==
    /\ Len(items) <= SweepLen(c)
    /\ g.pc = "done" => Len(items) = SweepLen(c)
    /\ g.pc = "yield" => Len(items) >= 1
    /\ \A k \in 1..Len(items) :
          /\ items[k].area = ExpectedArea(c, k)
          /\ items[k].applied_abb = ExpectedMode(c, k)
          /\ items[k].step = ExpectedStep(c, k)

\* C8: generateAbb yields exactly areas * len(applied_modes) *
\* len(applied_steps) items, outer loop over the areas, middle loop over
\* applied_modes, inner loop over applied_steps, in both variants.
C8_SweepOrder ==
    /\ InSweepOrder(cfg, abb_generator, yielded)
    /\ InSweepOrder(cfg, AT_abb_generator, AT_yielded)

C8_Witness ==
    /\ abb_generator.pc = "done"
    /\ AT_abb_generator.pc = "done"
    /\ Len(cfg.applied_modes) = 2
    /\ Len(yielded) >= 8
    /\ Len(AT_yielded) >= 8

\* The k-th item is the first item of an area after the first area.
FirstOfLaterArea(items, k) == k > 1 /\ items[k].area # items[k - 1].area

NewAreaTrueCount(items) == Cardinality({ k \in 1..Len(items) : items[k].newarea })

NewAreaOnFirstOfLaterAreas(c, g, items) ==
    /\ \A k \in 1..Len(items) : items[k].newarea <=> FirstOfLaterArea(items, k)
    /\ g.pc = "done" => NewAreaTrueCount(items) = areas(c) - 1

\* C9: is_new_area is false for the very first item, true on exactly the
\* first item of each area after the first and false on every other item,
\* so that a whole sweep has it true areas - 1 times (both variants).
C9_NewAreaFlags ==
    /\ NewAreaOnFirstOfLaterAreas(cfg, abb_generator, yielded)
    /\ NewAreaOnFirstOfLaterAreas(cfg, AT_abb_generator, AT_yielded)

C9_Witness ==
    /\ abb_generator.pc = "done"
    /\ AT_abb_generator.pc = "done"
    /\ NewAreaTrueCount(yielded) >= 1
    /\ NewAreaTrueCount(AT_yielded) >= 1
    /\ Len(yielded) >= 4
    /\ ~ yielded[Len(yielded)].newarea

\* list(generateAbb(...)): the items of the whole sweep, from generator
\* state g on.
Flags(items) == [ k \in 1..Len(items) |-> items[k].newarea ]

\* C10, as claimed: there is a configuration for which the is_new_area flags
\* of the two generateAbb variants, compared item by item, differ.
C10_VariantsDisagree ==
    /\ cfg \in GenConfigs
    /\ \E c \in GenConfigs :
          Flags(Drain(c, NewGenerator)) # Flags(AT_Drain(c, NewGenerator))

\* C10, amended: the two generateAbb variants raise is_new_area on the same
\* items: for every configuration the two flag sequences, compared item by
\* item, are equal.
C10_VariantsAgree ==
    /\ \A k \in 1..Len(yielded) :
          k <= Len(AT_yielded) => yielded[k].newarea = AT_yielded[k].newarea
    /\ (abb_generator.pc = "done" /\ AT_abb_generator.pc = "done") =>
          Flags(yielded) = Flags(AT_yielded)

C10_Witness ==
    /\ abb_generator.pc = "done"
    /\ AT_abb_generator.pc = "done"
    /\ \E k \in 1..Len(yielded) : yielded[k].newarea /\ AT_yielded[k].newarea

-----------------------------------------------------------------------------
(* makeBiasPolytope on its own: one call of each variant on arguments      *)
(* drawn from PolyInputs (checked under SpecPoly).                         *)

PolyStarts == [ 0..2 -> { 0 - 3, 0, 5 } ]

PolyAxes == { << 1 >>, << 2, 0 >>, << 0, 1, 2 >> }

PolySteps == { << 1 >>, << 2, 1 >>, << 1, 4, 2 >> }

PolyInputs ==
    [ start_aberrations : PolyStarts, offset_axes : PolyAxes, steps : PolySteps ]

\* The configuration of the specifications that are not about the sweep.
DefaultConfig ==
    [ bias_modes |-> << 1 >>, abb_magnitude |-> << 5, 1 >>,
      applied_modes |-> << 1 >>, applied_step |-> 1, numReps |-> 1 ]

InitPoly ==
    /\ Constructed(DefaultConfig)
    /\ poly_in \in PolyInputs
    /\ poly_out = << >>
    /\ AT_poly_out = << >>
    /\ ClarityIdle

\* self.makeBiasPolytope(start_aberrations, offset_axes, nk, steps) of
\* dsDataCollection.py
CallMakeBiasPolytope ==
    /\ poly_out = << >>
    /\ poly_out' = makeBiasPolytope(poly_in.start_aberrations, poly_in.offset_axes,
                                    VecLen(poly_in.start_aberrations), poly_in.steps)
    /\ UNCHANGED << cfg, numReps, AT_numReps, pc, repNum, genVars, repVars,
                    outVars, atVars, camVars, clarityVars, enableVars, gate,
                    poly_in, AT_poly_out >>

\* self.makeBiasPolytope(start_aberrations, offset_axes, nk, steps) of
\* dsDataHWAT.py
AT_CallMakeBiasPolytope ==
    /\ AT_poly_out = << >>
    /\ AT_poly_out' = AT_makeBiasPolytope(poly_in.start_aberrations, poly_in.offset_axes,
                                          VecLen(poly_in.start_aberrations), poly_in.steps)
    /\ UNCHANGED << cfg, numReps, AT_numReps, pc, repNum, genVars, repVars,
                    outVars, atVars, camVars, clarityVars, enableVars, gate,
                    poly_in, poly_out >>

NextPoly == CallMakeBiasPolytope \/ AT_CallMakeBiasPolytope

SpecPoly == InitPoly /\ [][NextPoly]_vars

\* The base vector moved by sign * step along one axis.
Offset(base, axis, sign, step) == [ base EXCEPT ![axis] = @ + sign * step ]

\* The components in which a vector differs from the base.
DiffersAt(base, v) == { j \in DOMAIN base : v[j] # base[j] }

IsPolytope(in, out) ==
    LET base  == in.start_aberrations
        axes  == in.offset_axes
        steps == in.steps
    IN  /\ Len(out) = 1 + 2 * Len(axes) * Len(steps)
        /\ out[1] = base
        /\ \A k \in 2..Len(out) :
              /\ Cardinality(DiffersAt(base, out[k])) = 1
              /\ \E a \in 1..Len(axes), st \in 1..Len(steps), sign \in { 1, 0 - 1 } :
                    /\ DiffersAt(base, out[k]) = { axes[a] }
                    /\ out[k] = Offset(base, axes[a], sign, steps[st])
        /\ \A a \in 1..Len(axes), st \in 1..Len(steps), sign \in { 1, 0 - 1 } :
              Cardinality({ k \in 2..Len(out) :
                              out[k] = Offset(base, axes[a], sign, steps[st]) }) = 1

\* C11: makeBiasPolytope returns exactly 1 + 2*len(axes)*len(steps) vectors,
\* the first the base vector, every other one differing from the base in
\* exactly one component, a given axis, by +step or -step of a given step,
\* and each (axis, step, sign) combination occurs exactly once (both
\* variants; distinct axes, distinct positive steps).
C11_PolytopeVectors ==
    /\ poly_out # << >> => IsPolytope(poly_in, poly_out)
    /\ AT_poly_out # << >> => IsPolytope(poly_in, AT_poly_out)

C11_Witness ==
    /\ Len(poly_in.offset_axes) = 3
    /\ Len(poly_in.steps) = 3
    /\ Len(poly_out) = 19
    /\ Len(AT_poly_out) = 19

\* The position at which the vector of (axis a, step st) would stand when
\* every +step vector is immediately followed by its -step vector.
PairedPos(in, a, st) == 1 + 2 * ((a - 1) * Len(in.steps) + (st - 1)) + 1

PlusThenMinusPerStep(in, out) ==
    \A a \in 1..Len(in.offset_axes), st \in 1..Len(in.steps) :
        /\ out[PairedPos(in, a, st)]
              = Offset(in.start_aberrations, in.offset_axes[a], 1, in.steps[st])
        /\ out[PairedPos(in, a, st) + 1]
              = Offset(in.start_aberrations, in.offset_axes[a], 0 - 1, in.steps[st])

\* C12, as claimed: base first, then for each axis in order and each step in
\* order the +step vector immediately followed by the -step vector of the
\* same step, for every list of steps.
C12_PlusMinusPaired ==
    /\ poly_out # << >> => PlusThenMinusPerStep(poly_in, poly_out)
    /\ AT_poly_out # << >> => PlusThenMinusPerStep(poly_in, AT_poly_out)

\* Where the code puts them: per axis a block of all +step vectors in step
\* order, then a block of all -step vectors in step order.
PlusBlockThenMinusBlock(in, out) ==
    LET n == Len(in.steps)
    IN  /\ out[1] = in.start_aberrations
        /\ \A a \in 1..Len(in.offset_axes), st \in 1..n :
              /\ out[1 + (a - 1) * 2 * n + st]
                    = Offset(in.start_aberrations, in.offset_axes[a], 1, in.steps[st])
              /\ out[1 + (a - 1) * 2 * n + n + st]
                    = Offset(in.start_aberrations, in.offset_axes[a], 0 - 1, in.steps[st])

\* C12, amended: base first, then axis-major; for each axis all +step
\* vectors in step order followed by all -step vectors in step order.  With
\* one step this is the +step vector immediately followed by the -step one.
C12_PlusBlockMinusBlock ==
    /\ poly_out # << >> =>
          /\ PlusBlockThenMinusBlock(poly_in, poly_out)
          /\ Len(poly_in.steps) = 1 => PlusThenMinusPerStep(poly_in, poly_out)
    /\ AT_poly_out # << >> =>
          /\ PlusBlockThenMinusBlock(poly_in, AT_poly_out)
          /\ Len(poly_in.steps) = 1 => PlusThenMinusPerStep(poly_in, AT_poly_out)

C12_Witness ==
    /\ Len(poly_in.offset_axes) = 2
    /\ Len(poly_in.steps) = 2
    /\ Len(poly_out) = 9
    /\ Len(AT_poly_out) = 9
    /\ poly_out[3] = Offset(poly_in.start_aberrations, poly_in.offset_axes[1], 1,
                            poly_in.steps[2])

-----------------------------------------------------------------------------
(* More properties of the sweep generators (checked under SpecGen).        *)

SetMax(S) == CHOOSE m \in S : \A x \in S : x <= m

\* The items up to the k-th that swept mode j.
SweptBy(items, k, j) == { i \in 1..k : items[i].applied_abb = j }

BaseIsRunningVector(c, items) ==
    \A k \in 1..Len(items) :
        LET base == items[k].biaslist[1]
        IN  \A j \in DOMAIN base :
                /\ base[j] = IF SweptBy(items, k, j) = { }
                             THEN 0
                             ELSE items[SetMax(SweptBy(items, k, j))].step
                /\ j = items[k].applied_abb => base[j] = items[k].step
                /\ (j # items[k].applied_abb /\ SweptBy(items, k, j) # { }) =>
                      base[j] = linspace(c)[Len(linspace(c))]

\* C13: the base vector of each yielded bias_list is the running start
\* vector: the slot of the current applied mode holds the current step and
\* every other slot the value it was last set to (the last step of a mode
\* swept earlier in this or a previous area, 0 when never swept); nothing is
\* reset between applied modes or between areas (both variants).
C13_BaseIsRunningVector ==
    /\ BaseIsRunningVector(cfg, yielded)
    /\ BaseIsRunningVector(cfg, AT_yielded)

RetainsAcrossAreas(items) ==
    \E k \in 1..Len(items) :
        /\ items[k].area = 1
        /\ items[k].applied_abb = 2
        /\ items[k].biaslist[1][0] > 0

C13_Witness ==
    /\ cfg.applied_modes = << 2, 0 >>
    /\ RetainsAcrossAreas(yielded)
    /\ RetainsAcrossAreas(AT_yielded)

Triple(item) == << item.area, item.applied_abb, item.step >>

PrefixesDistinct(items) ==
    \A j \in 1..Len(items), k \in 1..Len(items) :
        Triple(items[j]) # Triple(items[k]) =>
            /\ items[j].fprefix # items[k].fprefix
            /\ filename(items[j].fprefix) # filename(items[k].fprefix)

\* C14: two distinct (area, applied_mode, step) triples of one sweep never
\* have the same file_prefix (both variants), so no repetition's file is
\* written over another's.
C14_PrefixesDistinct ==
    /\ PrefixesDistinct(yielded)
    /\ PrefixesDistinct(AT_yielded)

OneStepSweep(c, g, items) ==
    /\ \A k \in 1..Len(items) :
          /\ items[k].step * c.abb_magnitude[2] = (0 - c.abb_magnitude[1]) * Unit(c)
          /\ items[k].biaslist[1][items[k].applied_abb] = items[k].step
          /\ \A j \in 1..Len(items) :
                (items[j].area = items[k].area
                    /\ items[j].applied_abb = items[k].applied_abb) => j = k
    /\ g.pc = "done" => Len(items) = areas(c) * Len(c.applied_modes)

\* C15: with applied_step = 1 the sweep has exactly one step value,
\* -abb_magnitude: one item per applied mode per area, whose base vector
\* has the applied-mode slot at -abb_magnitude (both variants).
C15_SingleStepIsMinusMagnitude ==
    cfg.applied_step = 1 =>
        /\ Len(linspace(cfg)) = 1
        /\ linspace(cfg)[1] * cfg.abb_magnitude[2] = (0 - cfg.abb_magnitude[1]) * Unit(cfg)
        /\ OneStepSweep(cfg, abb_generator, yielded)
        /\ OneStepSweep(cfg, AT_abb_generator, AT_yielded)

C15_Witness ==
    /\ cfg.applied_step = 1
    /\ cfg.applied_modes = << 2, 0 >>
    /\ abb_generator.pc = "done"
    /\ AT_abb_generator.pc = "done"
    /\ Len(yielded) = 4
    /\ Len(AT_yielded) = 4

-----------------------------------------------------------------------------
(* The immediate-mode run on any configuration (SpecAny).                  *)

InitAny ==
    /\ \E c \in AnyConfigs : Constructed(c)
    /\ PolyIdle
    /\ ClarityIdle

SpecAny == InitAny /\ [][Next]_vars

Malformed(c) ==
    \/ c.bias_modes = << >>
    \/ c.applied_modes = << >>
    \/ c.applied_step < 1

\* C16: malformed sweep parameters (an empty applied_modes or bias_modes, an
\* applied_step below 1) are rejected with an error when the experiment is
\* constructed: no repetition has started and no sweep item has been pulled.
C16_MalformedRejectedAtConstruction ==
    Malformed(cfg) =>
        /\ error.type # "None"
        /\ pc = "failed"
        /\ repNum = 0
        /\ abb_generator.pc = "start"
        /\ yielded = << >>

-----------------------------------------------------------------------------
(* Using the generators past the end of the sweep (SpecOnce).              *)

MaxGenerateActions == 2

\* dmHandler.getMovementTime(), decimal.Decimal('.001') and
\* delayBeforeImaging, in milliseconds.
MovementTime == 1

ToggleGap == 1

delayBeforeImaging == 1

\* The times of the n addToggle calls of one generateActions: curTime
\* starts at 0 and advances by the three delays after every toggle.
Toggles(n) ==
    [ k \in 1..n |-> (k - 1) * (MovementTime + ToggleGap + delayBeforeImaging) ]

\* The vectors of the "for abb in biaslist" iterations of generateActions,
\* item after item: every iteration makes one addToggle call.
RECURSIVE toggled(_)
toggled(items) ==
    IF items = << >> THEN << >>
    ELSE [ k \in 1..Len(items[1].biaslist) |-> items[1].biaslist[k] ]
            \o toggled(Tail(items))

\* The table after the loop: the toggles with their times and the vector
\* each was scheduled for.
table_of(items) ==
    LET abbs == toggled(items)
    IN  [ k \in 1..Len(abbs) |->
            [ time |-> Toggles(Len(abbs))[k], abb |-> abbs[k] ] ]

\* ATBiasImageDatasetExperiment.generateActions(): the for loop takes every
\* item the generator still has, schedules one toggle per bias vector and
\* queues the accumulated patterns on the AO device.  An exception of the
\* generator leaves the method before queue_patterns.
AT_generateActions ==
    /\ Len(AT_queued) < MaxGenerateActions
    /\ LET items == AT_Drain(cfg, AT_abb_generator)
           acc   == acc_patterns(items)
       IN  /\ AT_abb_generator' = AT_Drained(cfg, AT_abb_generator)
           /\ AT_yielded' = AT_yielded \o items
           /\ IF AT_abb_generator'.pc = "raised"
              THEN UNCHANGED << AT_table, AT_queued >>
              ELSE /\ AT_table' = table_of(items)
                   /\ AT_queued' = Append(AT_queued, acc)
    /\ UNCHANGED << polyVars, camVars, clarityVars, enableVars, gate, cfg, numReps, AT_numReps, pc, repNum,
                    abb_generator, yielded, repVars, outVars >>

\* executeRep(repNum) called again once the run loop has made its numReps
\* calls, or once a call has failed on the exhausted generator.
FurtherRep ==
    /\ \/ pc \in { "complete", "idle" } /\ repNum >= numReps
       \/ pc = "failed" /\ error = StopIteration
    /\ executeRep_begin

NextOnce == Next \/ FurtherRep \/ AT_generateActions

OnceConfigs ==
    [ bias_modes    : { << 1 >> },
      abb_magnitude : { << 5, 1 >> },
      applied_modes : AppliedModeChoices,
      applied_step  : 1..MaxSteps,
      numReps       : 1..MaxAreas ]

InitOnce ==
    /\ \E c \in OnceConfigs : Constructed(c)
    /\ PolyIdle
    /\ ClarityIdle

SpecOnce == InitOnce /\ [][NextOnce]_vars

\* C17: the sweep is single-pass and is never restarted: a generator yields
\* at most the items of one sweep; once the immediate-mode generator is
\* exhausted the executeRep that found it so has failed with StopIteration;
\* the first generateActions takes the whole sweep and every later one
\* queues no bias list and schedules no toggle.
C17_SinglePass ==
    /\ Len(yielded) <= SweepLen(cfg)
    /\ abb_generator.pc = "done" =>
          /\ Len(yielded) = SweepLen(cfg)
          /\ pc = "failed"
          /\ error = StopIteration
    /\ Len(AT_yielded) <= SweepLen(cfg)
    /\ Len(AT_queued) >= 1 =>
          /\ AT_abb_generator.pc = "done"
          /\ Len(AT_yielded) = SweepLen(cfg)
          /\ AT_queued[1] = acc_patterns(AT_yielded)
    /\ \A k \in 2..Len(AT_queued) : AT_queued[k] = << >>
    /\ Len(AT_queued) >= 2 => AT_table = << >>

C17_Witness ==
    /\ abb_generator.pc = "done"
    /\ error = StopIteration
    /\ Len(AT_queued) = 2
    /\ AT_queued[1] # << >>

-----------------------------------------------------------------------------
(* The camera's post-processor chain (SpecCam).                            *)

MaxAdds == 3

MaxPriority == 2

\* The callables handed to the camera; every one of them is truthy.
DataFunctions == { "d1", "d2" }

ShapeFunctions == { "half_width", "transpose" }

\* _PostProcessor(priority, f_data, f_shape); added is the number of the
\* addPostProcessor call that made it (not a field of the dataclass).
PostProcessor(priority, f_data, f_shape, added) ==
    [ priority |-> priority, f_data |-> f_data, f_shape |-> f_shape,
      added |-> added ]

\* The __eq__ the dataclass decorator generates: the fields, as a tuple.
Equal(a, b) ==
    /\ a.priority = b.priority
    /\ a.f_data = b.f_data
    /\ a.f_shape = b.f_shape

RECURSIVE InsertByPriority_TiesFirst(_, _)
InsertByPriority_TiesFirst(sorted, x) ==
    IF sorted = << >> THEN << x >>
    ELSE IF sorted[1].priority < x.priority
    THEN << sorted[1] >> \o InsertByPriority_TiesFirst(Tail(sorted), x)
    ELSE << x >> \o sorted

\* One step of the stable sort: x goes behind every item whose key is not
\* greater than its own.
RECURSIVE InsertByPriority(_, _)
InsertByPriority(sorted, x) ==
    IF sorted = << >> THEN << x >>
    ELSE IF sorted[1].priority <= x.priority
    THEN << sorted[1] >> \o InsertByPriority(Tail(sorted), x)
    ELSE << x >> \o sorted

\* list.sort(key=lambda x: x.priority): ascending and stable.
RECURSIVE sort(_)
sort(items) ==
    IF items = << >> THEN << >>
    ELSE InsertByPriority(sort(SubSeq(items, 1, Len(items) - 1)), items[Len(items)])

\* The three filters of removePostProcessor; "if f_data:" and
\* "if f_shape:" skip the filter of an argument left at None.
candidates(chain, priority, f_data, f_shape) ==
    LET ByPriority(item) == item.priority = priority
        ByData(item)     == item.f_data = f_data
        ByShape(item)    == item.f_shape = f_shape
        c1 == SelectSeq(chain, ByPriority)
        c2 == IF f_data # "None" THEN SelectSeq(c1, ByData) ELSE c1
    IN  IF f_shape # "None" THEN SelectSeq(c2, ByShape) ELSE c2

FirstCandidate_Last(cands) == cands[Len(cands)]

\* candidates[0]
FirstCandidate(cands) == cands[1]

remove_error_Never(cands) == "None"

\* candidates[0] on an empty list raises IndexError.
remove_error(cands) == IF cands = << >> THEN "IndexError" ELSE "None"

RECURSIVE list_remove_All(_, _)
list_remove_All(chain, x) ==
    IF chain = << >> THEN << >>
    ELSE IF Equal(chain[1], x) THEN list_remove_All(Tail(chain), x)
    ELSE << chain[1] >> \o list_remove_All(Tail(chain), x)

\* list.remove(x): takes out the first item equal to x.
RECURSIVE list_remove(_, _)
list_remove(chain, x) ==
    IF chain = << >> THEN << >>
    ELSE IF Equal(chain[1], x) THEN Tail(chain)
    ELSE << chain[1] >> \o list_remove(Tail(chain), x)

\* The record of a call.  readd: the call adds the very (priority, f_data,
\* f_shape) that the call before it removed; restores is then the chain
\* before that removal.
Call(op, priority, f_data, f_shape, err) ==
    LET readd == /\ op = "add"
                 /\ cam_call.op = "remove"
                 /\ cam_call.error = "None"
                 /\ cam_call.priority = priority
                 /\ cam_call.f_data = f_data
                 /\ cam_call.f_shape = f_shape
    IN  [ op |-> op, priority |-> priority, f_data |-> f_data, f_shape |-> f_shape,
          before |-> post_processors, error |-> err, readd |-> readd,
          restores |-> IF readd THEN cam_call.before ELSE << >> ]

\* The body of addPostProcessor, on the camera's own state.
do_addPostProcessor(priority, f_data, f_shape) ==
    /\ cam_adds < MaxAdds
    /\ post_processors' =
          sort(Append(post_processors,
                      PostProcessor(priority, f_data, f_shape, cam_adds + 1)))
    /\ cam_adds' = cam_adds + 1
    /\ cam_call' = Call("add", priority, f_data, f_shape, "None")
    /\ cam_result' = NoResult

\* The body of removePostProcessor, on the camera's own state.
do_removePostProcessor(priority, f_data, f_shape) ==
    LET cands == candidates(post_processors, priority, f_data, f_shape)
    IN  /\ post_processors' =
              IF cands = << >> THEN post_processors
              ELSE list_remove(post_processors, FirstCandidate(cands))
        /\ cam_call' = Call("remove", priority, f_data, f_shape, remove_error(cands))
        /\ cam_result' = NoResult
        /\ UNCHANGED cam_adds

addPostProcessor(priority, f_data, f_shape) ==
    /\ do_addPostProcessor(priority, f_data, f_shape)
    /\ UNCHANGED << polyVars, atVars, clarityVars, enableVars, gate, cfg, numReps, AT_numReps, pc, repNum,
                    genVars, repVars, outVars >>

removePostProcessor(priority, f_data, f_shape) ==
    /\ do_removePostProcessor(priority, f_data, f_shape)
    /\ UNCHANGED << polyVars, atVars, clarityVars, enableVars, gate, cfg, numReps, AT_numReps, pc,
                    repNum, genVars, repVars, outVars >>

\* What the callables do.  A shape function maps (width, height): one
\* halves the width, as the sectioning processor's does, the other swaps
\* the two.  A data function leaves its name on the image it is given.
apply_shape(f_shape, size) ==
    IF f_shape = "half_width" THEN << size[1] \div 2, size[2] >>
    ELSE << size[2], size[1] >>

apply_data(f_data, image) == Append(image, f_data)

Reversed(chain) == [ k \in 1..Len(chain) |-> chain[Len(chain) + 1 - k] ]

RECURSIVE fold_shape_Reversed(_, _)
fold_shape_Reversed(chain, size) ==
    IF chain = << >> THEN size
    ELSE fold_shape_Reversed(SubSeq(chain, 1, Len(chain) - 1),
                             apply_shape(chain[Len(chain)].f_shape, size))

\* for pp in self._post_processors: size = pp.f_shape(size)
RECURSIVE fold_shape(_, _)
fold_shape(chain, size) ==
    IF chain = << >> THEN size
    ELSE fold_shape(Tail(chain), apply_shape(chain[1].f_shape, size))

\* for pp in self._post_processors: image = pp.f_data(image)
RECURSIVE run_chain(_, _)
run_chain(chain, image) ==
    IF chain = << >> THEN image
    ELSE run_chain(Tail(chain), apply_data(chain[1].f_data, image))

\* (roi.width // binning.h, roi.height // binning.v), as the camera reports
\* them.
BaseSizes == { << 8, 6 >>, << 5, 4 >> }

getImageSize(base) ==
    /\ cam_call' = Call("getImageSize", 0, "None", "None", "None")
    /\ cam_result' = [ kind |-> "size", base |-> base,
                       size |-> fold_shape(post_processors, base), image |-> << >>,
                       published |-> 0 ]
    /\ UNCHANGED << post_processors, cam_adds, polyVars, atVars, clarityVars, enableVars, gate, cfg, numReps,
                    AT_numReps, pc, repNum, genVars, repVars, outVars >>

\* self.handler.getImageSize(): the camera handler asks the camera's
\* getImageSize.
handler_getImageSize(base) == fold_shape(post_processors, base)

\* events.publish(events.NEW_IMAGE % self.name, image, timestamp) as a
\* caller of executeAndWaitForOrTimeout sees it: the first publication
\* ends the wait and is what the call returns.
notify(result) ==
    IF gate.pc = "waiting" /\ result.published > 0
    THEN [ pc |-> "released", payload |-> result.kind ]
    ELSE gate

\* receiveData that raises the error before it has published anything.
dropped_frame_Unpublished(base, size) == NoResult

\* The dropped frame: np.zeros(size, dtype=np.int16) is published, no
\* f_data having been applied to it.
dropped_frame(base, size) ==
    [ kind |-> "zeros", base |-> base, size |-> size, image |-> << >>,
      published |-> 1 ]

\* receiveData(image, timestamp): a frame goes through the chain and is
\* published; an Exception in place of the frame is raised again after an
\* empty image of the expected size has been published.
receiveData(is_exception, base) ==
    /\ cam_call' = Call("receiveData", 0, "None", "None",
                        IF is_exception THEN "Exception" ELSE "None")
    /\ cam_result' =
          IF is_exception
          THEN dropped_frame(base, handler_getImageSize(base))
          ELSE [ kind |-> "image", base |-> base, size |-> << 0, 0 >>,
                 image |-> run_chain(post_processors, << >>), published |-> 1 ]
    /\ gate' = notify(cam_result')
    /\ UNCHANGED << post_processors, cam_adds, polyVars, atVars, clarityVars,
                    enableVars, cfg, numReps, AT_numReps, pc, repNum, genVars,
                    repVars, outVars >>

CallGetImageSize == \E base \in BaseSizes : getImageSize(base)

CallReceiveData ==
    \E is_exception \in BOOLEAN, base \in BaseSizes :
        receiveData(is_exception, base)

\* The pairs (f_data, f_shape) a device hands to addPostProcessor: two
\* processors that share f_data, two that share f_shape.
Processors ==
    { << "d1", "half_width" >>, << "d1", "transpose" >>, << "d2", "half_width" >> }

CallAddPostProcessor ==
    \E priority \in 1..MaxPriority, p \in Processors :
        addPostProcessor(priority, p[1], p[2])

CallRemovePostProcessor ==
    \E priority \in 1..MaxPriority, f_data \in DataFunctions \cup { "None" },
       f_shape \in ShapeFunctions \cup { "None" } :
        removePostProcessor(priority, f_data, f_shape)

NextCam ==
    \/ CallAddPostProcessor
    \/ CallRemovePostProcessor
    \/ CallGetImageSize
    \/ CallReceiveData

InitCam ==
    /\ Constructed(DefaultConfig)
    /\ PolyIdle
    /\ ClarityIdle

SpecCam == InitCam /\ [][NextCam]_vars

\* C18: the chain is always sorted ascending by priority and processors of
\* equal priority stand in the order in which they were added; an
\* addPostProcessor call, also one with a priority already present, raises
\* no error and lengthens the chain by one.
C18_ChainSortedStable ==
    /\ \A i \in 1..Len(post_processors), j \in 1..Len(post_processors) :
          i < j =>
             /\ post_processors[i].priority <= post_processors[j].priority
             /\ post_processors[i].priority = post_processors[j].priority =>
                   post_processors[i].added < post_processors[j].added
    /\ cam_call.op = "add" =>
          /\ cam_call.error = "None"
          /\ Len(post_processors) = Len(cam_call.before) + 1

\* Two equal processors behind one that a later call added with a lower
\* priority.
C18_Witness ==
    /\ cam_call.op = "add"
    /\ Len(post_processors) = 3
    /\ cam_adds = 3
    /\ post_processors[1].added = 3
    /\ Equal(post_processors[2], post_processors[3])

\* Whether the item matches the arguments of the removePostProcessor call.
Matches(item, call) ==
    /\ item.priority = call.priority
    /\ call.f_data # "None" => item.f_data = call.f_data
    /\ call.f_shape # "None" => item.f_shape = call.f_shape

Matching(call) ==
    { i \in 1..Len(call.before) : Matches(call.before[i], call) }

SetMin(S) == CHOOSE m \in S : \A x \in S : m <= x

Without(chain, i) ==
    [ k \in 1..(Len(chain) - 1) |-> IF k < i THEN chain[k] ELSE chain[k + 1] ]

\* C19: a removePostProcessor call with at least one matching processor
\* removes exactly the first processor of the chain that matches the
\* priority and every given function: the chain is one shorter and all
\* other processors remain in the same relative order.
C19_RemovesFirstMatch ==
    (cam_call.op = "remove" /\ Matching(cam_call) # { }) =>
        /\ cam_call.error = "None"
        /\ Len(post_processors) = Len(cam_call.before) - 1
        /\ post_processors = Without(cam_call.before, SetMin(Matching(cam_call)))

C19_Witness ==
    /\ cam_call.op = "remove"
    /\ cam_call.f_data = "None"
    /\ Len(cam_call.before) = 3
    /\ Matching(cam_call) = { 2, 3 }
    /\ cam_call.before[2].f_data # cam_call.before[3].f_data
    /\ Len(post_processors) = 2

\* C20: a removePostProcessor call with no matching candidate, also on an
\* empty chain, raises an error to its caller and leaves the chain as it
\* was.
C20_NoMatchRaises ==
    (cam_call.op = "remove" /\ Matching(cam_call) = { }) =>
        /\ cam_call.error = "IndexError"
        /\ post_processors = cam_call.before

C20_Witness ==
    /\ cam_call.op = "remove"
    /\ cam_call.error = "IndexError"
    /\ \E i \in 1..Len(cam_call.before) :
          /\ cam_call.before[i].priority = cam_call.priority
          /\ cam_call.before[i].f_data # cam_call.f_data
    /\ post_processors = cam_call.before

\* The size after the first k shape functions of the chain.
RECURSIVE ShapeAfter(_, _, _)
ShapeAfter(chain, base, k) ==
    IF k = 0 THEN base
    ELSE apply_shape(chain[k].f_shape, ShapeAfter(chain, base, k - 1))

DataOrder(chain) == [ k \in 1..Len(chain) |-> chain[k].f_data ]

\* C21: getImageSize returns the left fold of the f_shape functions over
\* the base size in chain order, and receiveData applies the f_data
\* functions to a frame in the same chain order: the k-th transform applied
\* is the one paired with the k-th shape function folded.
C21_ShapeAndDataInChainOrder ==
    /\ cam_call.op = "getImageSize" =>
          cam_result.size =
              ShapeAfter(cam_call.before, cam_result.base, Len(cam_call.before))
    /\ (cam_call.op = "receiveData" /\ cam_call.error = "None") =>
          cam_result.image = DataOrder(cam_call.before)

\* A size to which the order of the shape functions matters.
C21_Witness ==
    /\ cam_call.op = "getImageSize"
    /\ Len(cam_call.before) = 3
    /\ cam_call.before[1].f_shape # cam_call.before[3].f_shape
    /\ cam_result.size #
          ShapeAfter(Reversed(cam_call.before), cam_result.base, 3)

\* What the chain does: the transforms receiveData applies, in order, and
\* the size getImageSize computes from every base size.
Behaviour(chain) ==
    [ data |-> DataOrder(chain),
      size |-> [ base \in BaseSizes |-> ShapeAfter(chain, base, Len(chain)) ] ]

\* The place in the chain of the processor the removal took out.
Removed(call) ==
    CHOOSE i \in 1..Len(call.restores) :
        /\ Equal(call.restores[i],
                 PostProcessor(call.priority, call.f_data, call.f_shape, 0))
        /\ \A j \in 1..(i - 1) :
              ~Equal(call.restores[j],
                     PostProcessor(call.priority, call.f_data, call.f_shape, 0))

\* No processor of the same priority that differs from the removed one
\* stood behind it.
LastOfItsKind(call) ==
    \A j \in (Removed(call) + 1)..Len(call.restores) :
        call.restores[j].priority = call.priority =>
            Equal(call.restores[j], call.restores[Removed(call)])

\* C22 as claimed: removePostProcessor followed by addPostProcessor of the
\* same (priority, f_data, f_shape) restores the chain's behaviour, also
\* when the chain holds other processors of the same priority.
C22_ReaddRestoresBehaviour ==
    cam_call.readd => Behaviour(post_processors) = Behaviour(cam_call.restores)

\* C22 amended: the processor added again is the last of its priority, so
\* the behaviour is restored when no different processor of the same
\* priority stood behind the removed one; in every case the chain has its
\* old length and the same priorities in the same places.
C22_ReaddRestoresWhenLast ==
    cam_call.readd =>
        /\ Len(post_processors) = Len(cam_call.restores)
        /\ \A k \in 1..Len(post_processors) :
              post_processors[k].priority = cam_call.restores[k].priority
        /\ LastOfItsKind(cam_call) =>
              Behaviour(post_processors) = Behaviour(cam_call.restores)

\* The first of two equal processors was removed and added again.
C22_Witness ==
    /\ cam_call.readd
    /\ Len(cam_call.restores) = 2
    /\ Removed(cam_call) = 1
    /\ cam_call.restores[2].priority = cam_call.priority
    /\ LastOfItsKind(cam_call)
    /\ Behaviour(post_processors) = Behaviour(cam_call.restores)

-----------------------------------------------------------------------------
(* The Aurox Clarity panel (SpecClarity).  One GUI thread runs the event   *)
(* handlers one at a time and handles an event queued with QueueEvent      *)
(* before it takes another timer or button event; the camera's listener    *)
(* thread runs receiveData, and with it _section_data, beside it; the      *)
(* turret moves on its own.                                                *)

MaxMoves == 2

MaxCalibs == 2

PRIORITY_SECTIONING == 100

\* The variables that neither the Clarity nor the camera chain owns.
otherVars == << polyVars, atVars, enableVars, gate, cfg, numReps, AT_numReps, pc,
                repNum, genVars, repVars, outVars >>

\* The GUI thread is free to take a timer or button event: wx runs the
\* handlers one at a time on the one GUI thread, and it handles an event
\* queued with QueueEvent before it takes the next timer or button event.
NativeIdle == gui_pc = "idle" /\ pending = << >>

IsSectioning(item) == item.f_data = "_section_data"

SectioningInChain == SelectSeq(post_processors, IsSectioning) # << >>

\* asproxy.set_filter_position(position): the call returns at once and the
\* turret starts to move.
set_filter_position_async(position) ==
    /\ NativeIdle
    /\ moves < MaxMoves
    /\ filter_position' = NoPosition
    /\ filter_target' = position
    /\ moves' = moves + 1
    /\ UNCHANGED << filter_cubes, processors, button_section, section_enabled,
                    cbox_calib, pending, status, gui_pc, upd, calib, rx, rx_last,
                    export, calibs, camVars, otherVars >>

\* The turret arrives.
TurretSettles ==
    /\ filter_position = NoPosition
    /\ filter_position' = filter_target
    /\ UNCHANGED << filter_cubes, processors, filter_target, button_section,
                    section_enabled, cbox_calib, pending, status, gui_pc, upd,
                    calib, rx, rx_last, export, moves, calibs, camVars, otherVars >>

QueueEvent_Dropped(queue, evt) == queue

\* self._button_section.QueueEvent(evt)
QueueEvent(queue, evt) == Append(queue, evt)

\* The state _update_UI publishes when no proxy call raises.
update_state(is_enabled, others_ok) ==
    IF filter_position = NoPosition \/ ~others_ok THEN "busy"
    ELSE IF is_enabled THEN "enabled"
    ELSE "disabled"

\* _update_UI(), run by the timer.  raises: a proxy call of the try block
\* raises; is_enabled: get_is_enabled(); others_ok: the disk position is
\* definite and the door is closed.
update_UI(raises, is_enabled, others_ok) ==
    /\ NativeIdle
    /\ IF raises
       THEN /\ status' = "error"
            /\ upd' = NoUpdate
            /\ UNCHANGED << button_section, section_enabled, cbox_calib, pending >>
       ELSE LET fpos       == filter_position
                calibrated == fpos # NoPosition /\ processors[fpos] # 0
            IN  /\ status' = update_state(is_enabled, others_ok)
                /\ cbox_calib' = calibrated
                /\ IF ~calibrated /\ button_section
                   THEN /\ button_section' = FALSE
                        /\ pending' = QueueEvent(pending, "EVT_TOGGLEBUTTON")
                   ELSE UNCHANGED << button_section, pending >>
                /\ section_enabled' = calibrated
                /\ upd' = [ seen |-> TRUE, calibrated |-> calibrated,
                            was_on |-> button_section, handled |-> FALSE ]
    /\ UNCHANGED << filter_cubes, processors, filter_position, filter_target, gui_pc,
                    calib, rx, rx_last, export, moves, calibs, camVars, otherVars >>

\* _on_section(e) with e.GetEventObject().GetValue() = button_toggled, the
\* camera device being found.
on_section(button_toggled) ==
    IF button_toggled
    THEN do_addPostProcessor(PRIORITY_SECTIONING, "_section_data", "half_width")
    ELSE do_removePostProcessor(PRIORITY_SECTIONING, "_section_data", "None")

\* The operator clicks the sectioning button: the button changes its value
\* and _on_section runs.
ClickSection ==
    /\ NativeIdle
    /\ section_enabled
    /\ button_section' = ~button_section
    /\ on_section(~button_section)
    /\ UNCHANGED << filter_cubes, processors, filter_position, filter_target,
                    section_enabled, cbox_calib, pending, status, gui_pc, upd,
                    calib, rx, rx_last, export, moves, calibs, otherVars >>

\* The event _update_UI queued is handled: _on_section reads the value the
\* button has now.
HandlePending ==
    /\ gui_pc = "idle"
    /\ pending # << >>
    /\ pending' = Tail(pending)
    /\ on_section(button_section)
    /\ upd' = [ NoUpdate EXCEPT !.handled = TRUE ]
    /\ UNCHANGED << filter_cubes, processors, filter_position, filter_target,
                    button_section, section_enabled, cbox_calib, status, gui_pc,
                    calib, rx, rx_last, export, moves, calibs, otherVars >>

\* _on_calib(_) up to the wait: the camera handler is found; has_image:
\* getImageForCamera returned data.  The status goes to busy.
on_calib(has_image) ==
    /\ NativeIdle
    /\ calibs < MaxCalibs
    /\ IF has_image
       THEN /\ status' = "busy"
            /\ gui_pc' = "calib_wait"
            /\ calib' = [ NoCalib EXCEPT !.called = TRUE ]
       ELSE /\ calib' = [ NoCalib EXCEPT !.called = TRUE, !.error = "Exception" ]
            /\ UNCHANGED << status, gui_pc >>
    /\ UNCHANGED << filter_cubes, processors, filter_position, filter_target,
                    button_section, section_enabled, cbox_calib, pending, upd, rx,
                    rx_last, export, moves, calibs, camVars, otherVars >>

wait_over_Always(fpos) == TRUE

\* the end of "while fpos is None"
wait_over(fpos) == fpos # NoPosition

store_Resets(procs, fpos, p) == [ i \in DOMAIN procs |-> IF i = fpos THEN p ELSE 0 ]

\* self._processors[fpos] = Processor(data)
store(procs, fpos, p) == [ procs EXCEPT ![fpos] = p ]

\* One fpos = get_filter_position() of _on_calib and what follows it: the
\* loop goes on, or the processor is made and stored and the status goes
\* back to enabled.
CalibRead ==
    /\ gui_pc = "calib_wait"
    /\ IF wait_over(filter_position)
       THEN /\ processors' = store(processors, filter_position, calibs + 1)
            /\ calibs' = calibs + 1
            /\ status' = "enabled"
            /\ gui_pc' = "idle"
            /\ calib' = [ calib EXCEPT !.done = TRUE, !.fpos = filter_position,
                                       !.before = processors,
                                       !.sectioning = SectioningInChain ]
       ELSE /\ calib' = [ calib EXCEPT !.polled = TRUE ]
            /\ UNCHANGED << processors, calibs, status, gui_pc >>
    /\ UNCHANGED << filter_cubes, filter_position, filter_target, button_section,
                    section_enabled, cbox_calib, pending, upd, rx, rx_last, export,
                    moves, camVars, otherVars >>

Calibrated(procs) == { i \in Channels : procs[i] # 0 }

\* { self._filter_cubes[i]: p.get_deforms() for i, p in
\*   enumerate(self._processors) if p }: a later channel of the same label
\* takes the key of an earlier one.
deforms_of(labels, procs) ==
    [ label \in { labels[i + 1] : i \in Calibrated(procs) } |->
        procs[CHOOSE i \in Calibrated(procs) :
                 /\ labels[i + 1] = label
                 /\ \A j \in Calibrated(procs) : labels[j + 1] = label => j <= i] ]

no_deforms_Never(deforms) == FALSE

\* if not deforms
no_deforms(deforms) == DOMAIN deforms = { }

\* _on_deforms(_).  cancel: the operator cancels the file dialog.
on_deforms(cancel) ==
    /\ NativeIdle
    /\ LET deforms == deforms_of(filter_cubes, processors)
           call    == [ called |-> TRUE, calibrated |-> Calibrated(processors),
                        labels |-> DOMAIN deforms, error |-> "None",
                        dialog |-> FALSE, saved |-> FALSE ]
       IN  export' =
              IF no_deforms(deforms) THEN [ call EXCEPT !.error = "Exception" ]
              ELSE IF cancel
              THEN [ call EXCEPT !.error = "Exception", !.dialog = TRUE ]
              ELSE [ call EXCEPT !.dialog = TRUE, !.saved = TRUE ]
    /\ UNCHANGED << filter_cubes, processors, filter_position, filter_target,
                    button_section, section_enabled, cbox_calib, pending, status,
                    gui_pc, upd, calib, rx, rx_last, moves, calibs, camVars,
                    otherVars >>

\* The listener thread after one processor of the chain has returned.
rx_next(todo) ==
    IF todo > 1
    THEN [ pc |-> "section", todo |-> todo - 1, fpos |-> NoPosition ]
    ELSE [ pc |-> "idle", todo |-> 0, fpos |-> NoPosition ]

\* receiveData(image, timestamp) on the listener thread starts on the
\* chain; without a processor the frame is published as it is.
FrameArrives ==
    /\ rx.pc = "idle"
    /\ post_processors # << >>
    /\ rx' = [ pc |-> "section", todo |-> Len(post_processors), fpos |-> NoPosition ]
    /\ UNCHANGED << filter_cubes, processors, filter_position, filter_target,
                    button_section, section_enabled, cbox_calib, pending, status,
                    gui_pc, upd, calib, rx_last, export, moves, calibs, camVars,
                    otherVars >>

\* _section_data: fpos = self._proxy.get_filter_position(); on None the
\* data is returned as it came.
SectionReadPosition ==
    /\ rx.pc = "section"
    /\ rx' = IF filter_position = NoPosition
             THEN rx_next(rx.todo)
             ELSE [ rx EXCEPT !.pc = "process", !.fpos = filter_position ]
    /\ UNCHANGED << filter_cubes, processors, filter_position, filter_target,
                    button_section, section_enabled, cbox_calib, pending, status,
                    gui_pc, upd, calib, rx_last, export, moves, calibs, camVars,
                    otherVars >>

\* _section_data: self._processors[fpos].process(data).get(); on a None
\* entry the attribute access raises and receiveData ends.
SectionProcess ==
    /\ rx.pc = "process"
    /\ IF processors[rx.fpos] = 0
       THEN /\ rx_last' = [ error |-> "AttributeError" ]
            /\ rx' = rx_next(1)
       ELSE /\ rx_last' = [ error |-> "None" ]
            /\ rx' = rx_next(rx.todo)
    /\ UNCHANGED << filter_cubes, processors, filter_position, filter_target,
                    button_section, section_enabled, cbox_calib, pending, status,
                    gui_pc, upd, calib, export, moves, calibs, camVars, otherVars >>

CallSetFilterPosition == \E position \in Channels : set_filter_position_async(position)

TimerTick ==
    \E raises \in BOOLEAN, is_enabled \in BOOLEAN, others_ok \in BOOLEAN :
        update_UI(raises, is_enabled, others_ok)

ClickCalibrate == \E has_image \in BOOLEAN : on_calib(has_image)

ClickSaveDeforms == \E cancel \in BOOLEAN : on_deforms(cancel)

\* Sectioning, calibration and the frames of the camera, on the default
\* labels.
NextClarity ==
    \/ CallSetFilterPosition
    \/ TurretSettles
    \/ TimerTick
    \/ ClickSection
    \/ HandlePending
    \/ ClickCalibrate
    \/ CalibRead
    \/ FrameArrives
    \/ SectionReadPosition
    \/ SectionProcess

InitClarity ==
    /\ Constructed(DefaultConfig)
    /\ PolyIdle
    /\ ClarityIdle

SpecClarity == InitClarity /\ [][NextClarity]_vars

\* Calibration and the export of the deformation maps, on every
\* configuration __init__ accepts.
NextDeforms ==
    \/ CallSetFilterPosition
    \/ TurretSettles
    \/ TimerTick
    \/ ClickCalibrate
    \/ CalibRead
    \/ ClickSaveDeforms

InitDeforms ==
    /\ Constructed(DefaultConfig)
    /\ PolyIdle
    /\ \E lines \in ClarityConfigs : Clarity_init(lines)

SpecDeforms == InitDeforms /\ [][NextDeforms]_vars

\* The calibration with a GUI thread that goes on polling and a turret that
\* arrives.
SpecCalib ==
    /\ InitDeforms
    /\ [][NextDeforms]_vars
    /\ WF_vars(CalibRead)
    /\ WF_vars(TurretSettles)

\* C23: when a UI update finds the live channel uncalibrated or its
\* position indeterminate while the sectioning button is on, it switches
\* the button off and queues a toggle event; the handling of that event
\* removes the sectioning processor from the camera chain, and once no
\* queued event waits the sectioning processor is in the chain if and only
\* if the button is on.
C23_SectioningSwitchedOff ==
    /\ (upd.seen /\ upd.was_on /\ ~upd.calibrated) =>
          /\ ~button_section
          /\ pending = << "EVT_TOGGLEBUTTON" >>
    /\ upd.handled =>
          /\ cam_call.op = "remove"
          /\ cam_call.error = "None"
    /\ pending = << >> => (SectioningInChain <=> button_section)

C23_Witness ==
    /\ upd.handled
    /\ cam_call.op = "remove"
    /\ SelectSeq(cam_call.before, IsSectioning) # << >>
    /\ ~SectioningInChain
    /\ ~button_section
    /\ pending = << >>

\* C24: _section_data never uses the processor of a definite live channel
\* position whose entry is empty.
C24_SectionOnlyWhenCalibrated ==
    /\ rx.pc = "process" => processors[rx.fpos] # 0
    /\ rx_last.error = "None"

\* C25: _on_calib never stores a processor while the sectioning processor
\* is in the camera chain.
C25_NoCalibWhileSectioning == calib.done => ~calib.sectioning

\* C26: the calibrate action stores a processor under a definite channel
\* index only, and a calibration that waits for the position comes to its
\* end: the entry is written and the status is back at enabled.
C26_CalibWaitsAndFinishes ==
    /\ [](calib.done =>
            /\ calib.fpos \in Channels
            /\ \A i \in Channels :
                  i # calib.fpos => processors[i] = calib.before[i])
    /\ (gui_pc = "calib_wait") ~>
          (/\ gui_pc = "idle"
           /\ calib.done
           /\ status = "enabled"
           /\ processors[calib.fpos] = calibs)

C26_Witness ==
    /\ calib.done
    /\ calib.polled
    /\ gui_pc = "idle"
    /\ status = "enabled"
    /\ processors[calib.fpos] = calibs

\* C27: an entry changes only when _on_calib stores its processor, and
\* then it is the entry of the live channel; no entry ever goes back to
\* None.
C27_CalibOverwritesLiveOnly ==
    [][\A i \in Channels :
          /\ processors[i] # 0 => processors'[i] # 0
          /\ processors'[i] # processors[i] =>
                (gui_pc = "calib_wait" /\ i = filter_position)]_vars

C27_Witness ==
    /\ calib.done
    /\ \E j \in Channels :
          /\ j # calib.fpos
          /\ calib.before[j] # 0
          /\ processors[j] = calib.before[j]
    /\ processors[calib.fpos] # 0

\* C28: the mapping _on_deforms builds has exactly one key per calibrated
\* channel, the label of that channel.
C28_OneKeyPerCalibratedChannel ==
    export.called =>
        /\ export.labels = { filter_cubes[i + 1] : i \in export.calibrated }
        /\ Cardinality(export.labels) = Cardinality(export.calibrated)

\* C29: _on_deforms with no calibrated channel raises, opens no file dialog
\* and writes nothing.
C29_NoDeformsNoOutput ==
    (export.called /\ export.calibrated = { }) =>
        /\ export.error = "Exception"
        /\ ~export.dialog
        /\ ~export.saved

C29_Witness ==
    /\ export.called
    /\ export.calibrated = { }
    /\ export.error = "Exception"
    /\ calib.called

\* C30: in a run of numReps repetitions the k-th executeRep takes the k-th
\* sweep item, no repetition finds the generator exhausted, and when the
\* last repetition is complete the generator has no item left: every item
\* of the sweep has been acquired once.
C30_RunAcquiresWholeSweep ==
    /\ error.type # "StopIteration"
    /\ Len(yielded) \in { repNum, repNum + 1 }
    /\ InSweepOrder(cfg, abb_generator, yielded)
    /\ pc = "complete" =>
          /\ Drain(cfg, abb_generator) = << >>
          /\ Len(yielded) = SweepLen(cfg)
          /\ Len(written) = SweepLen(cfg)

-----------------------------------------------------------------------------
(* microscopeCamera.py: enableCamera (SpecEnable).                         *)

MaxRequests == 6

\* enableCamera(name, shouldEnable).  is_enabled: what
\* self._proxy.get_is_enabled() returns after the asynchronous enable()
\* has been waited for.  A call with shouldEnable false on a camera that is
\* not enabled leaves the first if statement without returning and goes on
\* into the enabling code.
enableCamera(shouldEnable, is_enabled) ==
    /\ enable_requests + disable_requests < MaxRequests
    /\ LET call == [ called |-> TRUE, shouldEnable |-> shouldEnable,
                     was_enabled |-> cam_enabled, requested |-> FALSE,
                     result |-> "None" ]
       IN  IF ~shouldEnable /\ cam_enabled
           THEN /\ cam_enabled' = FALSE
                /\ proxy_enabled' = FALSE
                /\ disable_requests' = disable_requests + 1
                /\ listener_connected' = FALSE
                /\ enable_call' = [ call EXCEPT !.result = "False" ]
                /\ UNCHANGED enable_requests
           ELSE IF cam_enabled
           THEN /\ enable_call' = call
                /\ UNCHANGED << cam_enabled, proxy_enabled, listener_connected,
                                enable_requests, disable_requests >>
           ELSE /\ enable_requests' = enable_requests + 1
                /\ proxy_enabled' = is_enabled
                /\ cam_enabled' = is_enabled
                /\ listener_connected' =
                      IF is_enabled THEN TRUE ELSE listener_connected
                /\ enable_call' =
                      [ call EXCEPT !.requested = TRUE,
                                    !.result = IF is_enabled THEN "True" ELSE "False" ]
                /\ UNCHANGED disable_requests
    /\ UNCHANGED << polyVars, atVars, camVars, clarityVars, gate, cfg, numReps,
                    AT_numReps, pc, repNum, genVars, repVars, outVars >>

CallEnableCamera ==
    \E shouldEnable \in BOOLEAN, is_enabled \in BOOLEAN :
        enableCamera(shouldEnable, is_enabled)

\* The listener hands a frame, or the error the hardware sent in its
\* place, to receiveData; a listener that is not connected hands on nothing.
ListenerDelivers ==
    /\ listener_connected
    /\ CallReceiveData

NextEnable == CallEnableCamera \/ ListenerDelivers

InitEnable ==
    /\ Constructed(DefaultConfig)
    /\ PolyIdle
    /\ ClarityIdle

SpecEnable == InitEnable /\ [][NextEnable]_vars

\* C31: enableCamera(name, shouldEnable=False) never enables the camera: it
\* issues no enable request, leaves enabled false and the listener
\* disconnected; and the listener is connected if and only if enabled is
\* true.
C31_DisableNeverEnables ==
    /\ (enable_call.called /\ ~enable_call.shouldEnable) =>
          /\ ~enable_call.requested
          /\ ~cam_enabled
          /\ ~listener_connected
    /\ listener_connected <=> cam_enabled

-----------------------------------------------------------------------------
(* dsDataHWAT.py: generateActions on its own (SpecAT).                     *)

NextAT == AT_generateActions

SpecAT == InitGen /\ [][NextAT]_vars

\* The bias lists of the items, one after the other.
RECURSIVE Concatenation(_)
Concatenation(items) ==
    IF items = << >> THEN << >>
    ELSE Head(items).biaslist \o Concatenation(Tail(items))

\* C32: generateActions schedules one toggle per bias vector and hands the
\* AO device, in one queue_patterns call, the bias lists of all the items
\* of the sweep in the order the generator yields them: as many patterns as
\* toggles, the k-th toggle in time being the one of the k-th pattern.
C32_OneToggleAndOnePatternPerVector ==
    /\ [](Len(AT_queued) >= 1 =>
            /\ Len(AT_yielded) = AT_numReps
            /\ AT_queued[1] = Concatenation(AT_yielded)
            /\ LET n == Len(AT_queued)
               IN  /\ Len(AT_table) = Len(AT_queued[n])
                   /\ \A k \in 1..Len(AT_table) :
                         AT_table[k].abb = AT_queued[n][k]
                   /\ \A k \in 1..(Len(AT_table) - 1) :
                         AT_table[k].time < AT_table[k + 1].time)
    /\ [][Len(AT_queued') <= Len(AT_queued) + 1]_vars

C32_Witness ==
    /\ Len(AT_queued) = 1
    /\ Len(AT_yielded) >= 4
    /\ Len(AT_table) = 5 * Len(AT_yielded)
    /\ AT_table[6].abb = AT_yielded[2].biaslist[1]
    /\ AT_table[6].abb # AT_table[1].abb

-----------------------------------------------------------------------------
(* microscopeCamera.py: receiveData and a caller that waits for the frame  *)
(* (SpecDrop).                                                             *)

\* executeAndWaitForOrTimeout(NEW_IMAGE % camera.name, takeimage, timeout)
\* of executeRep: the caller subscribes, asks for an image and waits.  The
\* records of the camera start afresh with the wait.
GateWait ==
    /\ gate.pc # "waiting"
    /\ gate' = [ pc |-> "waiting", payload |-> "none" ]
    /\ cam_call' = Call("none", 0, "None", "None", "None")
    /\ cam_result' = NoResult
    /\ UNCHANGED << post_processors, cam_adds, polyVars, atVars, clarityVars,
                    enableVars, cfg, numReps, AT_numReps, pc, repNum, genVars,
                    repVars, outVars >>

\* The timeout passes before any NEW_IMAGE event: the call returns None.
GateTimeout ==
    /\ gate.pc = "waiting"
    /\ gate' = [ pc |-> "timedout", payload |-> "none" ]
    /\ UNCHANGED << camVars, polyVars, atVars, clarityVars, enableVars, cfg,
                    numReps, AT_numReps, pc, repNum, genVars, repVars, outVars >>

NextDrop ==
    \/ CallAddPostProcessor
    \/ CallReceiveData
    \/ GateWait
    \/ GateTimeout

SpecDrop == InitCam /\ [][NextDrop]_vars

-----------------------------------------------------------------------------
(* The number of images of one repetition (checked under SpecGen).         *)

\* dsDataCollection.py: self.cameraToImageCount = 2 * len(bias_modes) + 1
cameraToImageCount(c) == 2 * Len(c.bias_modes) + 1

\* dsDataHWAT.py: self.cameraToImageCount = 2 * len(bias_modes) + 1
AT_cameraToImageCount(c) == 2 * Len(c.bias_modes) + 1

\* C34: every bias_list generateAbb yields has 1 + 2 * len(bias_modes)
\* vectors, the experiment's cameraToImageCount, in both variants, also when
\* an applied mode is a bias mode; the example sweep has 3 items of 5
\* vectors and its first item is not a new area.
C34_BiasListLength ==
    /\ \A k \in 1..Len(yielded) :
          /\ Len(yielded[k].biaslist) = 1 + 2 * Len(cfg.bias_modes)
          /\ Len(yielded[k].biaslist) = cameraToImageCount(cfg)
    /\ \A k \in 1..Len(AT_yielded) :
          /\ Len(AT_yielded[k].biaslist) = 1 + 2 * Len(cfg.bias_modes)
          /\ Len(AT_yielded[k].biaslist) = AT_cameraToImageCount(cfg)
    /\ (cfg = ExampleConfig /\ abb_generator.pc = "done") =>
          /\ Len(yielded) = 3
          /\ \A k \in 1..3 : Len(yielded[k].biaslist) = 5
          /\ ~yielded[1].newarea

C34_Witness ==
    /\ cfg = ExampleConfig
    /\ abb_generator.pc = "done"
    /\ AT_abb_generator.pc = "done"
    /\ Len(yielded) = 3
    /\ Len(AT_yielded) = 3
    /\ Len(yielded[3].biaslist) = 5
    /\ yielded[3].applied_abb \in { cfg.bias_modes[1], cfg.bias_modes[2] }

====
